---- MODULE Spec2Model ----
(***************************************************************************)
(* The triangle lifecycle engine of src/src/lib/triangle.ts: placement     *)
(* (assignUserToTriangle), completion and payout                           *)
(* (handleTriangleCompletion), cycling (cycleTriangle), triangle creation  *)
(* (createTriangle) and referrer resolution (findReferrer).                *)
(*                                                                         *)
(* Every `await prisma...` of the source is one atomic step of the calling *)
(* process; the code between two awaits belongs to the step of the await   *)
(* that precedes it.  NoUser (0) stands for null user ids, NoTri (0) for a *)
(* null triangle.                                                          *)
(***************************************************************************)
EXTENDS Integers, Sequences, FiniteSets, TLC

VARIABLES
    triangle,     \* triangle rows: id -> [planType, isComplete]
    position,     \* position rows: triangle id -> sequence of rows
    posStamp,     \* createdAt of the position rows of a triangle
    nextId,       \* next triangle id; ids grow with createdAt
    user,         \* user rows: id -> [plan, uplineId, balance, totalEarned]
    planTable,    \* plan rows: planType -> payout, NoPlan when the row is missing
    transaction,  \* transaction rows, in creation order
    pc,           \* per process: the await it stands before
    frame,        \* per process: the locals of the call in progress
    retLog,       \* history: the positions assignUserToTriangle returned
    completions,  \* history: the arguments of handleTriangleCompletion calls
    thrown,       \* history: the errors thrown to callers
    special,      \* number of calls so far that are not the base workload
    refUsers,     \* findReferrer: the user collection, in scan order
    refToken,     \* findReferrer: the referralCode argument
    refPc,        \* findReferrer: the strategy it stands before
    refResult,    \* findReferrer: the local `referrer`
    refTried      \* history: the strategies findReferrer queried

engineVars == <<triangle, position, posStamp, nextId, user, planTable,
                transaction, pc, frame, retLog, completions, thrown,
                special>>
refVars == <<refUsers, refToken, refPc, refResult, refTried>>
vars == <<triangle, position, posStamp, nextId, user, planTable,
          transaction, pc, frame, retLog, completions, thrown,
          special, refUsers, refToken, refPc, refResult, refTried>>

----------------------------------------------------------------------------
(* Bounds of the model *)

\* fresh users that may call assignUserToTriangle
MaxUsers == 16
\* calls that deviate from the base workload (a fresh user of BasePlan with
\* no referrer, called while no other call runs): other plan, referrer,
\* upline, repeated user, unknown user, direct createTriangle, direct
\* cycleTriangle, a call that starts while another call is in progress
MaxSpecial == 1
\* users that may be named as referrer / upline / repeated caller
MaxRefUser == 3

Procs == {1, 2}
Plans == {"P1", "P2"}
BasePlan == "P1"
NoUser == 0
NoTri == 0
NoPlan == 0

----------------------------------------------------------------------------
(* StructureDefinition *)

TRIANGLE_STRUCTURE ==
    << [level |-> 1, position |-> 0, key |-> "A"],
       [level |-> 2, position |-> 0, key |-> "AB1"],
       [level |-> 2, position |-> 1, key |-> "AB2"],
       [level |-> 3, position |-> 0, key |-> "B1C1"],
       [level |-> 3, position |-> 1, key |-> "B1C2"],
       [level |-> 3, position |-> 2, key |-> "B2C1"],
       [level |-> 3, position |-> 3, key |-> "B2C2"],
       [level |-> 4, position |-> 0, key |-> "C1D1"],
       [level |-> 4, position |-> 1, key |-> "C1D2"],
       [level |-> 4, position |-> 2, key |-> "C2D1"],
       [level |-> 4, position |-> 3, key |-> "C2D2"],
       [level |-> 4, position |-> 4, key |-> "C3D1"],
       [level |-> 4, position |-> 5, key |-> "C3D2"],
       [level |-> 4, position |-> 6, key |-> "C4D1"],
       [level |-> 4, position |-> 7, key |-> "C4D2"] >>

\* filledPositions === 15
FullCount == 15

\* NewPositions with the level-4 rows numbered from 1
NewPositionsOffByOne ==
    [i \in DOMAIN TRIANGLE_STRUCTURE |->
        [level |-> TRIANGLE_STRUCTURE[i].level,
         position |-> IF TRIANGLE_STRUCTURE[i].level = 4
                      THEN TRIANGLE_STRUCTURE[i].position + 1
                      ELSE TRIANGLE_STRUCTURE[i].position,
         positionKey |-> TRIANGLE_STRUCTURE[i].key,
         userId |-> NoUser]]

\* the rows createTriangle builds from TRIANGLE_STRUCTURE
NewPositions ==
    [i \in DOMAIN TRIANGLE_STRUCTURE |->
        [level |-> TRIANGLE_STRUCTURE[i].level,
         position |-> TRIANGLE_STRUCTURE[i].position,
         positionKey |-> TRIANGLE_STRUCTURE[i].key,
         userId |-> NoUser]]

\* ab1SubtreeMap with the targets of B1C1 and B1C2 exchanged
ab1SubtreeMapSwapped ==
    << <<"B1C1", "AB2">>, <<"B1C2", "AB1">>, <<"C1D1", "B1C1">>,
       <<"C1D2", "B1C2">>, <<"C2D1", "B2C1">>, <<"C2D2", "B2C2">> >>

\* Object.entries(ab1SubtreeMap), in insertion order
ab1SubtreeMap ==
    << <<"B1C1", "AB1">>, <<"B1C2", "AB2">>, <<"C1D1", "B1C1">>,
       <<"C1D2", "B1C2">>, <<"C2D1", "B2C1">>, <<"C2D2", "B2C2">> >>

\* ab2SubtreeMap without its last entry
ab2SubtreeMapShort ==
    << <<"B2C1", "AB1">>, <<"B2C2", "AB2">>, <<"C3D1", "B1C1">>,
       <<"C3D2", "B1C2">>, <<"C4D1", "B2C1">> >>

\* Object.entries(ab2SubtreeMap), in insertion order
ab2SubtreeMap ==
    << <<"B2C1", "AB1">>, <<"B2C2", "AB2">>, <<"C3D1", "B1C1">>,
       <<"C3D2", "B1C2">>, <<"C4D1", "B2C1">>, <<"C4D2", "B2C2">> >>

\* the two loops of cycleTriangle, one after the other
MoveList == ab1SubtreeMap \o ab2SubtreeMap

----------------------------------------------------------------------------
(* Store queries *)

\* orderBy [{level: 'asc'}, {position: 'asc'}]
RowBefore(r, s) ==
    \/ r.level < s.level
    \/ r.level = s.level /\ r.position <= s.position

HasPositions(t) == t \in DOMAIN position

\* where {triangleId: t, userId: null}
OpenRows(t) ==
    IF HasPositions(t)
    THEN {i \in DOMAIN position[t] : position[t][i].userId = NoUser}
    ELSE {}

\* FirstOpen with the order reversed: the last open row
FirstOpenLast(t) ==
    LET open == OpenRows(t)
    IN  IF open = {} THEN 0
        ELSE CHOOSE i \in open :
                \A j \in open : RowBefore(position[t][j], position[t][i])

\* findFirst of the open rows in (level, position) order; 0 when there is none
FirstOpen(t) ==
    LET open == OpenRows(t)
    IN  IF open = {} THEN 0
        ELSE CHOOSE i \in open :
                \A j \in open : RowBefore(position[t][i], position[t][j])

\* count where {triangleId: t, userId: {not: null}}
FilledCount(t) ==
    IF HasPositions(t)
    THEN Cardinality({i \in DOMAIN position[t] : position[t][i].userId # NoUser})
    ELSE 0

\* the triangles holding a position row of user u
TrianglesOf(u) ==
    {t \in DOMAIN position : \E i \in DOMAIN position[t] : position[t][i].userId = u}

\* trianglePosition ordered by createdAt desc, element [0]: its triangleId
MostRecentTriangleOf(u) ==
    LET held == TrianglesOf(u)
    IN  IF held = {} THEN NoTri
        ELSE CHOOSE t \in held : \A s \in held : posStamp[s] <= posStamp[t]

\* where {planType, isComplete: false, positions: {some: {userId: null}}}
OpenTriangles(plan) ==
    {t \in DOMAIN triangle :
        /\ triangle[t].planType = plan
        /\ ~triangle[t].isComplete
        /\ OpenRows(t) # {}}

\* OldestOpenTriangle with the order reversed: createdAt desc
NewestOpenTriangle(plan) ==
    LET open == OpenTriangles(plan)
    IN  IF open = {} THEN NoTri
        ELSE CHOOSE t \in open : \A s \in open : s <= t

\* findFirst ... orderBy createdAt asc; NoTri when there is none
OldestOpenTriangle(plan) ==
    LET open == OpenTriangles(plan)
    IN  IF open = {} THEN NoTri
        ELSE CHOOSE t \in open : \A s \in open : t <= s

\* rows.find(p => p.level === l && p.position === x); 0 when there is none
RowAt(rows, l, x) ==
    LET hits == {i \in DOMAIN rows : rows[i].level = l /\ rows[i].position = x}
    IN  IF hits = {} THEN 0
        ELSE CHOOSE i \in hits : \A j \in hits : i <= j

\* rows.find(p => p.positionKey === key); 0 when there is none
RowOfKey(rows, key) ==
    LET hits == {i \in DOMAIN rows : rows[i].positionKey = key}
    IN  IF hits = {} THEN 0
        ELSE CHOOSE i \in hits : \A j \in hits : i <= j

\* the occupant found by rows.find(...)?.user
UserAt(rows, i) == IF i = 0 THEN NoUser ELSE rows[i].userId

\* prisma.trianglePosition.update({where: {id}, data: {userId: u}})
SetOccupant(t, i, u) ==
    [position EXCEPT ![t] = [@ EXCEPT ![i] = [@ EXCEPT !.userId = u]]]

----------------------------------------------------------------------------
(* Process frames *)

\* a null position row
NoRow == [level |-> 0, position |-> 0, positionKey |-> "", userId |-> NoUser]

\* The locals of a call.  kind: the exported function called; userId,
\* refArg: the arguments of assignUserToTriangle; plan: user.plan; ref:
\* referrerId || user.uplineId; refTri: referrerTrianglePosition.triangleId;
\* target: targetTriangle; avail, availRow: availablePosition (its row and
\* the row as read); tri: triangleId of handleTriangleCompletion and
\* cycleTriangle; aUser: positionA.user; payout: plan.payout; snap:
\* positions; cPlan: the planType read; t1, t2: triangle1, triangle2; idx:
\* the entry the loops are at; newPos: newPosition; newTri, ret: the
\* triangle createTriangle made and where it returns to.  History, read by
\* no action: preUser, preTx (the user rows and the number of transaction
\* rows when the call began) and startId (nextId when cycleTriangle began).
BlankFrame ==
    [kind |-> "none", userId |-> NoUser, plan |-> "", ref |-> NoUser,
     target |-> NoTri, avail |-> 0, availRow |-> NoRow, tri |-> NoTri,
     aUser |-> NoUser, payout |-> NoPlan, snap |-> << >>, cPlan |-> "",
     t1 |-> NoTri, t2 |-> NoTri, idx |-> 0, newPos |-> 0, newTri |-> NoTri,
     ret |-> "", refArg |-> NoUser, refTri |-> NoTri,
     preUser |-> << >>, preTx |-> 0, startId |-> 0]

Goto(p, label) == pc' = [pc EXCEPT ![p] = label]

\* the call of process p is over: its locals are gone
Return(p) ==
    /\ pc' = [pc EXCEPT ![p] = "idle"]
    /\ frame' = [frame EXCEPT ![p] = BlankFrame]

\* the call of process p ends with an exception thrown to its caller
Throw(p, err) ==
    /\ Return(p)
    /\ thrown' = thrown \cup {err}

----------------------------------------------------------------------------
(* Initial state: an empty store *)

EmptyFn == [x \in {} |-> 0]

RefIdle ==
    /\ refUsers = << >>
    /\ refToken = << >>
    /\ refPc = "off"
    /\ refResult = 0
    /\ refTried = {}

Init ==
    /\ triangle = EmptyFn
    /\ position = EmptyFn
    /\ posStamp = EmptyFn
    /\ nextId = 1
    /\ user = EmptyFn
    /\ planTable \in {[pl \in Plans |-> IF pl = BasePlan THEN 5 ELSE NoPlan],
                      [pl \in Plans |-> IF pl = BasePlan THEN NoPlan ELSE 7]}
    /\ transaction = << >>
    /\ pc = [p \in Procs |-> "idle"]
    /\ frame = [p \in Procs |-> BlankFrame]
    /\ retLog = << >>
    /\ completions = << >>
    /\ thrown = {}
    /\ special = 0
    /\ RefIdle

Drop(f, t) == [s \in DOMAIN f \ {t} |-> f[s]]

Put(f, t, v) == [s \in DOMAIN f \cup {t} |-> IF s = t THEN v ELSE f[s]]

----------------------------------------------------------------------------
(* assignUserToTriangle *)

NextUser == Cardinality(DOMAIN user) + 1

\* the users a call may name as referrer, upline or repeated caller
RefIds == (1 .. MaxRefUser) \cap DOMAIN user

\* CandidateReferrer with the operands exchanged: user.uplineId || referrerId
UplineFirst(referrerId, uplineId) ==
    IF uplineId # NoUser THEN uplineId ELSE referrerId

\* referrerId || user.uplineId
CandidateReferrer(referrerId, uplineId) ==
    IF referrerId # NoUser THEN referrerId ELSE uplineId

\* a call is handed to process p, the first idle one; cost is 1 for a call
\* outside the base workload, and a call that starts while another runs
\* costs 1 more
Admit(p, cost) ==
    /\ pc[p] = "idle"
    /\ \A q \in Procs : q < p => pc[q] # "idle"
    /\ LET busy == IF \E q \in Procs : pc[q] # "idle" THEN 1 ELSE 0
       IN  /\ special + cost + busy <= MaxSpecial
           /\ special' = special + cost + busy

\* assignUserToTriangle(userId, referrerId) is called and loads the user
AssignCall(p) ==
    /\ pc[p] = "idle"
    /\ \E u \in (DOMAIN user \cap RefIds) \cup {NextUser}, exists \in BOOLEAN,
          plan \in Plans, upline \in RefIds \cup {NoUser},
          referrerId \in RefIds \cup {NoUser} :
           LET fresh == u \notin DOMAIN user
               base == fresh /\ exists /\ plan = BasePlan /\ upline = NoUser
                          /\ referrerId = NoUser
           IN  /\ fresh => u <= MaxUsers
               /\ ~fresh => exists /\ plan = user[u].plan /\ upline = user[u].uplineId
               /\ ~exists => plan = BasePlan /\ upline = NoUser /\ referrerId = NoUser
               /\ Admit(p, IF base THEN 0 ELSE 1)
               /\ user' = IF fresh /\ exists
                          THEN Put(user, u, [plan |-> plan, uplineId |-> upline,
                                             balance |-> 0, totalEarned |-> 0])
                          ELSE user
               /\ IF ~exists
                  THEN Throw(p, "User not found")
                  ELSE /\ frame' = [frame EXCEPT ![p] =
                               [BlankFrame EXCEPT
                                   !.kind = "assign", !.userId = u, !.plan = plan,
                                   !.refArg = referrerId,
                                   !.ref = CandidateReferrer(referrerId, upline),
                                   !.preUser = user', !.preTx = Len(transaction)]]
                       /\ Goto(p, IF CandidateReferrer(referrerId, upline) # NoUser
                                  THEN "a_referrer" ELSE "a_findOldest")
                       /\ UNCHANGED thrown
               /\ UNCHANGED <<triangle, position, posStamp, nextId, planTable,
                              transaction, retLog, completions, refVars>>

\* the triangle of the referrer's newest position, when it qualifies
ReferrerTriangle(ref, plan) ==
    LET t == IF ref \in DOMAIN user THEN MostRecentTriangleOf(ref) ELSE NoTri
    IN  IF /\ t # NoTri
           /\ t \in DOMAIN triangle
           /\ triangle[t].planType = plan
           /\ ~triangle[t].isComplete
        THEN t ELSE NoTri

\* prisma.user.findUnique of the referrer with its positions and triangles
FindReferrer(p) ==
    /\ pc[p] = "a_referrer"
    /\ LET t == ReferrerTriangle(frame[p].ref, frame[p].plan)
       IN  /\ frame' = [frame EXCEPT ![p].refTri = t]
           /\ Goto(p, IF t # NoTri THEN "a_refAvail" ELSE "a_findOldest")
    /\ UNCHANGED <<triangle, position, posStamp, nextId, user, planTable,
                   transaction, retLog, completions, thrown, special, refVars>>

\* findFirst of an open position in the referrer's triangle
CheckReferrerTriangle(p) ==
    /\ pc[p] = "a_refAvail"
    /\ IF FirstOpen(frame[p].refTri) # 0
       THEN /\ frame' = [frame EXCEPT ![p].target = frame[p].refTri]
            /\ Goto(p, "a_findSlot")
       ELSE /\ UNCHANGED frame
            /\ Goto(p, "a_findOldest")
    /\ UNCHANGED <<triangle, position, posStamp, nextId, user, planTable,
                   transaction, retLog, completions, thrown, special, refVars>>

\* findFirst of the oldest open triangle of the user's plan
FindOldest(p) ==
    /\ pc[p] = "a_findOldest"
    /\ LET t == OldestOpenTriangle(frame[p].plan)
       IN  IF t # NoTri
           THEN /\ frame' = [frame EXCEPT ![p].target = t]
                /\ Goto(p, "a_findSlot")
           ELSE /\ frame' = [frame EXCEPT ![p].ret = "assign"]
                /\ Goto(p, "c_row")
    /\ UNCHANGED <<triangle, position, posStamp, nextId, user, planTable,
                   transaction, retLog, completions, thrown, special, refVars>>

\* findFirst of the next open position of the target triangle
FindSlot(p) ==
    /\ pc[p] = "a_findSlot"
    /\ IF FirstOpen(frame[p].target) = 0
       THEN /\ Throw(p, "No available positions in triangle")
       ELSE /\ frame' = [frame EXCEPT
                            ![p].avail = FirstOpen(frame[p].target),
                            ![p].availRow =
                                position[frame[p].target][FirstOpen(frame[p].target)]]
            /\ Goto(p, "a_update")
            /\ UNCHANGED thrown
    /\ UNCHANGED <<triangle, position, posStamp, nextId, user, planTable,
                   transaction, retLog, completions, special, refVars>>

\* trianglePosition.update of the chosen row
AssignPosition(p) ==
    /\ pc[p] = "a_update"
    /\ IF HasPositions(frame[p].target)
       THEN /\ position' = SetOccupant(frame[p].target, frame[p].avail,
                                       frame[p].userId)
            /\ Goto(p, "a_count")
            /\ UNCHANGED <<frame, thrown>>
       ELSE /\ Throw(p, "Record to update not found")
            /\ UNCHANGED position
    /\ UNCHANGED <<triangle, posStamp, nextId, user, planTable, transaction,
                   retLog, completions, special, refVars>>

\* the call of process p returns to its caller
Finish(p) ==
    /\ Return(p)
    /\ retLog' = IF frame[p].kind = "assign"
                 THEN Append(retLog, [userId |-> frame[p].userId,
                                      tri |-> frame[p].target,
                                      row |-> frame[p].avail,
                                      level |-> frame[p].availRow.level,
                                      position |-> frame[p].availRow.position,
                                      positionKey |-> frame[p].availRow.positionKey])
                 ELSE retLog

\* trianglePosition.count of the filled rows, and the completion test
CountFilled(p) ==
    /\ pc[p] = "a_count"
    /\ IF FilledCount(frame[p].target) = FullCount
       THEN /\ frame' = [frame EXCEPT ![p].tri = frame[p].target]
            /\ Goto(p, "h_mark")
            /\ completions' = Append(completions, frame[p].target)
            /\ UNCHANGED retLog
       ELSE /\ Finish(p)
            /\ UNCHANGED completions
    /\ UNCHANGED <<triangle, position, posStamp, nextId, user, planTable,
                   transaction, thrown, special, refVars>>

----------------------------------------------------------------------------
(* createTriangle *)

\* prisma.triangle.create
CreateTriangleRow(p) ==
    /\ pc[p] = "c_row"
    /\ triangle' = Put(triangle, nextId,
                       [planType |-> IF frame[p].ret = "assign"
                                     THEN frame[p].plan ELSE frame[p].cPlan,
                        isComplete |-> FALSE])
    /\ nextId' = nextId + 1
    /\ frame' = [frame EXCEPT ![p].newTri = nextId]
    /\ Goto(p, "c_pos")
    /\ UNCHANGED <<position, posStamp, user, planTable, transaction, retLog,
                   completions, thrown, special, refVars>>

\* the createdAt of rows created now: later than every one in the store
Now ==
    IF DOMAIN posStamp = {} THEN 1
    ELSE 1 + (CHOOSE n \in {posStamp[t] : t \in DOMAIN posStamp} :
                 \A t \in DOMAIN posStamp : posStamp[t] <= n)

\* prisma.trianglePosition.createMany, and the return to the caller
CreatePositions(p) ==
    /\ pc[p] = "c_pos"
    /\ position' = Put(position, frame[p].newTri, NewPositions)
    /\ posStamp' = Put(posStamp, frame[p].newTri, Now)
    /\ IF frame[p].ret = "assign"
       THEN /\ frame' = [frame EXCEPT ![p].target = frame[p].newTri,
                                      ![p].newTri = NoTri, ![p].ret = ""]
            /\ Goto(p, "a_findSlot")
       ELSE IF frame[p].ret = "cycle1"
       THEN /\ frame' = [frame EXCEPT ![p].t1 = frame[p].newTri,
                                      ![p].newTri = NoTri, ![p].ret = "cycle2"]
            /\ Goto(p, "c_row")
       ELSE IF frame[p].ret = "cycle2"
       THEN /\ frame' = [frame EXCEPT ![p].t2 = frame[p].newTri,
                                      ![p].newTri = NoTri, ![p].ret = ""]
            /\ Goto(p, "y_setA1")
       ELSE Return(p)
    /\ UNCHANGED <<triangle, nextId, user, planTable, transaction, retLog,
                   completions, thrown, special, refVars>>

\* createTriangle(planType) is called by another module
CreateTriangleCall(p) ==
    /\ pc[p] = "idle"
    /\ \E plan \in Plans :
          frame' = [frame EXCEPT ![p] =
                       [BlankFrame EXCEPT !.kind = "create", !.cPlan = plan,
                                          !.ret = "direct"]]
    /\ Admit(p, 1)
    /\ Goto(p, "c_row")
    /\ UNCHANGED <<triangle, position, posStamp, nextId, user, planTable,
                   transaction, retLog, completions, thrown, refVars>>

----------------------------------------------------------------------------
(* handleTriangleCompletion *)

\* prisma.triangle.update: isComplete = true
MarkComplete(p) ==
    /\ pc[p] = "h_mark"
    /\ IF frame[p].tri \in DOMAIN triangle
       THEN /\ triangle' = [triangle EXCEPT ![frame[p].tri].isComplete = TRUE]
            /\ Goto(p, "h_findA")
            /\ UNCHANGED <<frame, thrown>>
       ELSE /\ Throw(p, "Record to update not found")
            /\ UNCHANGED triangle
    /\ UNCHANGED <<position, posStamp, nextId, user, planTable, transaction,
                   retLog, completions, special, refVars>>

\* findFirst of the level-1 row with its user and triangle
FindPositionA(p) ==
    /\ pc[p] = "h_findA"
    /\ LET t == frame[p].tri
           rows == IF HasPositions(t) THEN position[t] ELSE << >>
           a == UserAt(rows, RowAt(rows, 1, 0))
       IN  IF a # NoUser /\ a \in DOMAIN user
           THEN IF t \in DOMAIN triangle
                THEN /\ frame' = [frame EXCEPT ![p].aUser = a,
                                               ![p].cPlan = triangle[t].planType]
                     /\ Goto(p, "h_findPlan")
                     /\ UNCHANGED thrown
                ELSE Throw(p, "Cannot read properties of null")
           ELSE /\ UNCHANGED <<frame, thrown>>
                /\ Goto(p, "y_findMany")
    /\ UNCHANGED <<triangle, position, posStamp, nextId, user, planTable,
                   transaction, retLog, completions, special,
                   refVars>>

\* FindPlan with a missing plan row treated as an error
FindPlanOrThrow(p) ==
    /\ pc[p] = "h_findPlan"
    /\ IF planTable[frame[p].cPlan] # NoPlan
       THEN /\ frame' = [frame EXCEPT ![p].payout = planTable[frame[p].cPlan]]
            /\ Goto(p, "h_createTx")
            /\ UNCHANGED thrown
       ELSE Throw(p, "Plan not found")
    /\ UNCHANGED <<triangle, position, posStamp, nextId, user, planTable,
                   transaction, retLog, completions, special, refVars>>

\* prisma.plan.findUnique
FindPlan(p) ==
    /\ pc[p] = "h_findPlan"
    /\ IF planTable[frame[p].cPlan] # NoPlan
       THEN /\ frame' = [frame EXCEPT ![p].payout = planTable[frame[p].cPlan]]
            /\ Goto(p, "h_createTx")
       ELSE /\ UNCHANGED frame
            /\ Goto(p, "y_findMany")
    /\ UNCHANGED <<triangle, position, posStamp, nextId, user, planTable,
                   transaction, retLog, completions, thrown, special, refVars>>

\* the row prisma.transaction.create writes
PayoutTransaction(u, amount) ==
    [userId |-> u, type |-> "WITHDRAWAL", amount |-> amount,
     status |-> "PENDING"]

\* prisma.transaction.create
CreateTransaction(p) ==
    /\ pc[p] = "h_createTx"
    /\ transaction' = Append(transaction,
                             PayoutTransaction(frame[p].aUser, frame[p].payout))
    /\ Goto(p, "h_updateUser")
    /\ UNCHANGED <<triangle, position, posStamp, nextId, user, planTable,
                   frame, retLog, completions, thrown, special,
                   refVars>>

\* Credit without the increment of totalEarned
CreditBalanceOnly(row, amount) ==
    [row EXCEPT !.balance = @ + amount]

\* the user row after balance and totalEarned are incremented
Credit(row, amount) ==
    [row EXCEPT !.balance = @ + amount, !.totalEarned = @ + amount]

\* prisma.user.update
UpdateUser(p) ==
    /\ pc[p] = "h_updateUser"
    /\ user' = [user EXCEPT ![frame[p].aUser] = Credit(@, frame[p].payout)]
    /\ Goto(p, "y_findMany")
    /\ UNCHANGED <<triangle, position, posStamp, nextId, planTable,
                   transaction, frame, retLog, completions, thrown, special, refVars>>

----------------------------------------------------------------------------
(* cycleTriangle *)

\* the occupant positions.find(p => p.positionKey === oldKey)?.user of entry i
MovedUser(snap, i) == UserAt(snap, RowOfKey(snap, MoveList[i][1]))

\* the next entry of the two loops, from i on, whose old position has a user
NextMove(snap, i) ==
    LET live == {j \in i .. Len(MoveList) : MovedUser(snap, j) # NoUser}
    IN  IF live = {} THEN Len(MoveList) + 1
        ELSE CHOOSE j \in live : \A k \in live : j <= k

\* MoveTarget with triangle1 in the second loop as well
MoveTargetFirst(f, i) == f.t1

\* the new triangle entry i moves into: triangle1 for the first loop
MoveTarget(f, i) == IF i <= Len(ab1SubtreeMap) THEN f.t1 ELSE f.t2

\* BothSeeds with || for &&
EitherSeed(snap) ==
    \/ UserAt(snap, RowAt(snap, 2, 0)) # NoUser
    \/ UserAt(snap, RowAt(snap, 2, 1)) # NoUser

\* ab1User && ab2User
BothSeeds(snap) ==
    /\ UserAt(snap, RowAt(snap, 2, 0)) # NoUser
    /\ UserAt(snap, RowAt(snap, 2, 1)) # NoUser

\* findMany of the positions of the triangle, and the split test
LoadPositions(p) ==
    /\ pc[p] = "y_findMany"
    /\ LET t == frame[p].tri
       IN  IF HasPositions(t) /\ t \in DOMAIN triangle
           THEN /\ frame' = [frame EXCEPT
                                ![p].snap = position[t],
                                ![p].startId = nextId,
                                ![p].cPlan = triangle[t].planType,
                                ![p].ret = IF BothSeeds(position[t])
                                           THEN "cycle1" ELSE ""]
                /\ Goto(p, IF BothSeeds(position[t]) THEN "c_row" ELSE "y_delPos")
                /\ UNCHANGED retLog
           ELSE Finish(p)
    /\ UNCHANGED <<triangle, position, posStamp, nextId, user, planTable,
                   transaction, completions, thrown, special,
                   refVars>>

\* update of the level-1 row of a new triangle, by (triangleId, level, position)
SetTop(p, label, t, u, next) ==
    /\ pc[p] = label
    /\ IF HasPositions(t) /\ RowAt(position[t], 1, 0) # 0
       THEN /\ position' = SetOccupant(t, RowAt(position[t], 1, 0), u)
            /\ UNCHANGED thrown
            /\ next
       ELSE /\ Throw(p, "Record to update not found")
            /\ UNCHANGED position
    /\ UNCHANGED <<triangle, posStamp, nextId, user, planTable, transaction,
                   retLog, completions, special, refVars>>

\* the loops go on at entry i, or are over
ContinueMoves(p, i) ==
    LET n == NextMove(frame[p].snap, i)
    IN  /\ frame' = [frame EXCEPT ![p].idx = n, ![p].newPos = 0]
        /\ Goto(p, IF n <= Len(MoveList) THEN "y_find" ELSE "y_delPos")

\* Assign AB1 to position A of triangle1
SetTop1(p) ==
    SetTop(p, "y_setA1", frame[p].t1,
           UserAt(frame[p].snap, RowAt(frame[p].snap, 2, 0)),
           Goto(p, "y_setA2") /\ UNCHANGED frame)

\* Assign AB2 to position A of triangle2
SetTop2(p) ==
    SetTop(p, "y_setA2", frame[p].t2,
           UserAt(frame[p].snap, RowAt(frame[p].snap, 2, 1)),
           ContinueMoves(p, 1))

\* findFirst of the row of newKey in the new triangle
FindNewPosition(p) ==
    /\ pc[p] = "y_find"
    /\ LET t == MoveTarget(frame[p], frame[p].idx)
           rows == IF HasPositions(t) THEN position[t] ELSE << >>
           i == RowOfKey(rows, MoveList[frame[p].idx][2])
       IN  IF i # 0
           THEN /\ frame' = [frame EXCEPT ![p].newPos = i]
                /\ Goto(p, "y_move")
           ELSE ContinueMoves(p, frame[p].idx + 1)
    /\ UNCHANGED <<triangle, position, posStamp, nextId, user, planTable,
                   transaction, retLog, completions, thrown, special, refVars>>

\* update of the new row with the user of the old position
MoveUser(p) ==
    /\ pc[p] = "y_move"
    /\ LET t == MoveTarget(frame[p], frame[p].idx)
       IN  IF HasPositions(t)
           THEN /\ position' = SetOccupant(t, frame[p].newPos,
                                           MovedUser(frame[p].snap, frame[p].idx))
                /\ ContinueMoves(p, frame[p].idx + 1)
                /\ UNCHANGED thrown
           ELSE /\ Throw(p, "Record to update not found")
                /\ UNCHANGED position
    /\ UNCHANGED <<triangle, posStamp, nextId, user, planTable, transaction,
                   retLog, completions, special, refVars>>

\* trianglePosition.deleteMany of the old triangle
DeletePositions(p) ==
    /\ pc[p] = "y_delPos"
    /\ position' = Drop(position, frame[p].tri)
    /\ posStamp' = Drop(posStamp, frame[p].tri)
    /\ Goto(p, "y_delTri")
    /\ UNCHANGED <<triangle, nextId, user, planTable, transaction, frame,
                   retLog, completions, thrown, special, refVars>>

\* DeleteTriangle without the delete: the call returns, the row stays
DeleteTriangleSkipped(p) ==
    /\ pc[p] = "y_delTri"
    /\ Finish(p)
    /\ UNCHANGED <<triangle, thrown, position, posStamp, nextId, user,
                   planTable, transaction, completions, special, refVars>>

\* triangle.delete of the old triangle, and the return to the caller
DeleteTriangle(p) ==
    /\ pc[p] = "y_delTri"
    /\ IF frame[p].tri \in DOMAIN triangle
       THEN /\ triangle' = Drop(triangle, frame[p].tri)
            /\ Finish(p)
            /\ UNCHANGED thrown
       ELSE /\ Throw(p, "Record to delete does not exist")
            /\ UNCHANGED <<triangle, retLog>>
    /\ UNCHANGED <<position, posStamp, nextId, user, planTable, transaction,
                   completions, special, refVars>>

\* cycleTriangle(triangleId) is called by another module
CycleCall(p) ==
    /\ pc[p] = "idle"
    /\ \E t \in DOMAIN triangle \cup {nextId} :
          frame' = [frame EXCEPT ![p] =
                       [BlankFrame EXCEPT !.kind = "cycle", !.tri = t]]
    /\ Admit(p, 1)
    /\ Goto(p, "y_findMany")
    /\ UNCHANGED <<triangle, position, posStamp, nextId, user, planTable,
                   transaction, retLog, completions, thrown, refVars>>

----------------------------------------------------------------------------
(* Specifications *)

Call(p) ==
    \/ AssignCall(p)
    \/ CreateTriangleCall(p)
    \/ CycleCall(p)

Step(p) ==
    \/ FindReferrer(p)
    \/ CheckReferrerTriangle(p)
    \/ FindOldest(p)
    \/ CreateTriangleRow(p)
    \/ CreatePositions(p)
    \/ FindSlot(p)
    \/ AssignPosition(p)
    \/ CountFilled(p)
    \/ MarkComplete(p)
    \/ FindPositionA(p)
    \/ FindPlan(p)
    \/ CreateTransaction(p)
    \/ UpdateUser(p)
    \/ LoadPositions(p)
    \/ SetTop1(p)
    \/ SetTop2(p)
    \/ FindNewPosition(p)
    \/ MoveUser(p)
    \/ DeletePositions(p)
    \/ DeleteTriangle(p)

\* any number of callers, interleaved at the awaits
Next == \E p \in Procs : Call(p) \/ Step(p)

Spec == Init /\ [][Next]_vars

\* one caller: each call returns before the next one starts
SeqNext == Call(1) \/ Step(1)

SeqSpec == Init /\ [][SeqNext]_vars

----------------------------------------------------------------------------
(* findReferrer.  Strings are sequences of one-character strings; a user  *)
(* row of the collection is [id, username, referralCode]; the result is   *)
(* the index of the row found, 0 for null.                                *)

\* /^[0-9a-fA-F]{24}$/
ObjectIdLen == 24

\* referralCode.length >= 3
MinPartialLen == 3

HexChars ==
    {"0", "1", "2", "3", "4", "5", "6", "7", "8", "9",
     "a", "b", "c", "d", "e", "f", "A", "B", "C", "D", "E", "F"}

UpperLetters ==
    <<"A", "B", "C", "D", "E", "F", "G", "H", "I", "J", "K", "L", "M",
      "N", "O", "P", "Q", "R", "S", "T", "U", "V", "W", "X", "Y", "Z">>

LowerLetters ==
    <<"a", "b", "c", "d", "e", "f", "g", "h", "i", "j", "k", "l", "m",
      "n", "o", "p", "q", "r", "s", "t", "u", "v", "w", "x", "y", "z">>

LowerChar(c) ==
    IF \E i \in DOMAIN UpperLetters : UpperLetters[i] = c
    THEN LowerLetters[CHOOSE i \in DOMAIN UpperLetters : UpperLetters[i] = c]
    ELSE c

\* String.prototype.toLowerCase
toLowerCase(str) == [i \in 1 .. Len(str) |-> LowerChar(str[i])]

\* String.prototype.endsWith
endsWith(str, suffix) ==
    /\ Len(suffix) <= Len(str)
    /\ SubSeq(str, Len(str) - Len(suffix) + 1, Len(str)) = suffix

isValidObjectId(id) ==
    /\ Len(id) = ObjectIdLen
    /\ \A i \in 1 .. Len(id) : id[i] \in HexChars

\* findUnique on a unique field; 0 when no row matches
FindUnique(users, field, value) ==
    LET hits == {i \in DOMAIN users : users[i][field] = value}
    IN  IF hits = {} THEN 0 ELSE CHOOSE i \in hits : \A j \in hits : i <= j

\* FindPartial without the two toLowerCase calls
FindPartialCaseSensitive(users, code) ==
    LET hits == {i \in DOMAIN users : endsWith(users[i].id, code)}
    IN  IF hits = {} THEN 0 ELSE CHOOSE i \in hits : \A j \in hits : i <= j

\* users.find(user => user.id.toLowerCase().endsWith(code.toLowerCase())) || null
FindPartial(users, code) ==
    LET hits == {i \in DOMAIN users :
                    endsWith(toLowerCase(users[i].id), toLowerCase(code))}
    IN  IF hits = {} THEN 0 ELSE CHOOSE i \in hits : \A j \in hits : i <= j

\* Strategy 1 queries only for a syntactically valid ObjectId
Strategy1Applies(code) == isValidObjectId(code)

\* ExactApplies without the test of `referrer`
ExactAlways(referrer) == TRUE

\* Strategies 2 and 3 query only while `referrer` is null
ExactApplies(referrer) == referrer = 0

\* Strategy 4 queries only while `referrer` is null, for 3 characters or more
PartialApplies(referrer, code) == referrer = 0 /\ Len(code) >= MinPartialLen

RefStrategy(label, applies, found, next) ==
    /\ refPc = label
    /\ refResult' = IF applies THEN found ELSE refResult
    /\ refTried' = IF applies THEN refTried \cup {label} ELSE refTried
    /\ refPc' = next
    /\ UNCHANGED <<refUsers, refToken, engineVars>>

\* Strategy 1: Exact ObjectId match
FindById ==
    RefStrategy("id", Strategy1Applies(refToken),
                FindUnique(refUsers, "id", refToken), "username")

\* Strategy 2: Username match
FindByUsername ==
    RefStrategy("username", ExactApplies(refResult),
                FindUnique(refUsers, "username", refToken), "referralCode")

\* Strategy 3: Referral code match
FindByReferralCode ==
    RefStrategy("referralCode", ExactApplies(refResult),
                FindUnique(refUsers, "referralCode", refToken), "partial")

\* Strategy 4: Partial ObjectId match
FindByPartialId ==
    RefStrategy("partial", PartialApplies(refResult, refToken),
                FindPartial(refUsers, refToken), "done")

\* an ObjectId as the store prints it: lower-case hex, here zeros and a tail
Oid(tail) == [i \in 1 .. ObjectIdLen - Len(tail) |-> "0"] \o tail

RefIdList == << Oid(<<"1", "a", "b">>), Oid(<<"2", "a", "b">>),
                Oid(<<"c", "d", "e">>) >>

\* the values usernames and referral codes are drawn from
RefNames ==
    { RefIdList[1], <<"z", "e", "d">>, <<"1", "a", "b">>, <<"a", "b">> }

\* the tokens findReferrer is called with
RefTokens ==
    RefNames \cup
    { RefIdList[2], RefIdList[3], Oid(<<"1", "A", "B">>), <<"1", "A", "B">>,
      <<"A", "B">>, <<"b">>, <<"x", "y", "z">>, <<"z", "a", "b">> }

\* the user collections: ids are valid ObjectIds, the three fields are unique
RefCollections ==
    {c \in [DOMAIN RefIdList ->
               [id : {RefIdList[i] : i \in DOMAIN RefIdList},
                username : RefNames, referralCode : RefNames]] :
        /\ \A i \in DOMAIN c : c[i].id = RefIdList[i]
        /\ \A i, j \in DOMAIN c :
              i # j => /\ c[i].username # c[j].username
                       /\ c[i].referralCode # c[j].referralCode}

\* findReferrer(referralCode) is called
FindReferrerCall ==
    /\ refPc \in {"off", "done"}
    /\ refToken' \in RefTokens
    /\ refPc' = "id"
    /\ refResult' = 0
    /\ refTried' = {}
    /\ UNCHANGED <<refUsers, engineVars>>

RefInit ==
    /\ triangle = EmptyFn
    /\ position = EmptyFn
    /\ posStamp = EmptyFn
    /\ nextId = 1
    /\ user = EmptyFn
    /\ planTable = [pl \in Plans |-> NoPlan]
    /\ transaction = << >>
    /\ pc = [p \in Procs |-> "idle"]
    /\ frame = [p \in Procs |-> BlankFrame]
    /\ retLog = << >>
    /\ completions = << >>
    /\ thrown = {}
    /\ special = 0
    /\ refUsers \in RefCollections
    /\ refToken = << >>
    /\ refPc = "off"
    /\ refResult = 0
    /\ refTried = {}

RefNext ==
    \/ FindReferrerCall
    \/ FindById
    \/ FindByUsername
    \/ FindByReferralCode
    \/ FindByPartialId

RefSpec == RefInit /\ [][RefNext]_vars

----------------------------------------------------------------------------
(* Properties *)

AllIdle == \A p \in Procs : pc[p] = "idle"

\* process p is the one whose step leads from this state to the next
Steps(p) == pc'[p] # pc[p] \/ frame'[p] # frame[p]

\* the positions two entries of retLog name are the same row
SamePosition(a, b) == a.tri = b.tri /\ a.row = b.row

\* process p is inside cycleTriangle, after its first write to the store
\* and before its last
MidCycle(p) ==
    \/ pc[p] \in {"y_setA1", "y_setA2", "y_find", "y_move", "y_delTri"}
    \/ pc[p] = "c_pos" /\ frame[p].ret \in {"cycle1", "cycle2"}
    \/ pc[p] = "c_row" /\ frame[p].ret = "cycle2"
    \/ pc[p] = "y_delPos" /\ frame[p].t1 # NoTri

\* the triangles cycleTriangle of process p has created so far
Successors(p) == {frame[p].t1, frame[p].t2, frame[p].newTri} \ {NoTri}

(* C1: under any interleaving of assign calls, no assign writes a user   *)
(* into a position that already has an occupant, and no two assign calls *)
(* return the same position.                                             *)
C1_OccupantSetOnce ==
    [][/\ \A p \in Procs :
             (pc[p] = "a_update" /\ pc'[p] = "a_count")
                => position[frame[p].target][frame[p].avail].userId = NoUser
       /\ \A i, j \in DOMAIN retLog' :
             i < j => ~SamePosition(retLog'[i], retLog'[j])]_vars

(* C2: under any interleaving of assign calls, handleTriangleCompletion  *)
(* runs exactly once for each triangle that becomes full: never twice    *)
(* for one triangle id, and no full triangle is left without it once     *)
(* every call has returned.                                              *)
C2_CompletionExactlyOnce ==
    /\ \A i, j \in DOMAIN completions : i < j => completions[i] # completions[j]
    /\ AllIdle =>
          \A t \in DOMAIN position :
              FilledCount(t) = FullCount
                 => \E i \in DOMAIN completions : completions[i] = t

(* C3: cycleTriangle is atomic per triangle: while a process is in the   *)
(* middle of cycling, no other call has selected as its target a         *)
(* successor triangle that the cycling is still building.                *)
C3_CyclingAtomic ==
    \A p, q \in Procs :
        (p # q /\ MidCycle(p)) => frame[q].target \notin Successors(p)

\* the occupant of the row of a key in a sequence of rows, NoUser if none
OccupantOf(rows, key) == UserAt(rows, RowOfKey(rows, key))

\* process p returns from assignUserToTriangle with this step
AssignReturns(p) ==
    /\ frame[p].kind = "assign"
    /\ pc[p] # "idle" /\ pc'[p] = "idle"
    /\ Len(retLog') = Len(retLog) + 1

\* process p ends cycleTriangle with this step, its last delete
CycleEnds(p) ==
    /\ pc[p] = "y_delTri" /\ pc'[p] = "idle"
    /\ thrown' = thrown

\* the level and the index of the k-th slot in ascending (level, index)
\* order, for levels of sizes 1, 2, 4, 8
CanonLevel(k) == IF k = 1 THEN 1 ELSE IF k <= 3 THEN 2 ELSE IF k <= 7 THEN 3 ELSE 4
CanonIndex(k) == k - 2 ^ (CanonLevel(k) - 1)

(* C4: from an empty store, sequential assigns of distinct users of one  *)
(* plan with no referrer or upline: the first 15 are placed into the     *)
(* same triangle, the k-th returns the k-th position in ascending        *)
(* (level, index) order, and completion is triggered exactly once,       *)
(* during the 15th call and in none of the first 14.                     *)
C4_SequentialFill ==
    special = 0 =>
        /\ \A k \in DOMAIN retLog :
              k <= 15 => /\ retLog[k].tri = retLog[1].tri
                         /\ retLog[k].userId = k
                         /\ retLog[k].level = CanonLevel(k)
                         /\ retLog[k].position = CanonIndex(k)
        /\ Len(retLog) < 14 => completions = << >>
        /\ (Len(retLog) = 14 /\ completions # << >>) =>
              /\ completions = << retLog[1].tri >>
              /\ pc[1] # "idle" /\ frame[1].userId = 15 /\ frame[1].avail = 15
        /\ Len(retLog) >= 15 => completions = << retLog[1].tri >>

C4_Witness == special = 0 /\ Len(retLog) = 15 /\ AllIdle

(* C5: when the assign that fills the 15th position returns and the plan *)
(* record exists, balance and totalEarned of the occupant of "A" have    *)
(* grown by exactly the payout, exactly one WITHDRAWAL / PENDING         *)
(* transaction of that amount was created for that user, and no other    *)
(* user's balance or totalEarned changed.                                *)
C5_PayoutOnCompletion ==
    [][\A p \in Procs :
          (/\ AssignReturns(p)
           /\ frame[p].tri = frame[p].target
           /\ planTable[frame[p].plan] # NoPlan)
          => LET a == OccupantOf(frame[p].snap, "A")
                 amount == planTable[frame[p].plan]
                 before == frame[p].preUser
             IN  /\ a # NoUser
                 /\ DOMAIN user' = DOMAIN before
                 /\ user'[a].balance = before[a].balance + amount
                 /\ user'[a].totalEarned = before[a].totalEarned + amount
                 /\ \A u \in DOMAIN before \ {a} : user'[u] = before[u]
                 /\ Len(transaction') = frame[p].preTx + 1
                 /\ SubSeq(transaction', 1, frame[p].preTx)
                       = SubSeq(transaction, 1, frame[p].preTx)
                 /\ transaction'[Len(transaction')] =
                       [userId |-> a, type |-> "WITHDRAWAL",
                        amount |-> amount, status |-> "PENDING"]]_vars

C5_Witness ==
    /\ AllIdle
    /\ Len(retLog) >= 15
    /\ Len(transaction) = 1
    /\ user[transaction[1].userId].balance = planTable[BasePlan]
    /\ planTable[BasePlan] # NoPlan

\* the promotion maps as the specification states them
C6_LeftMap ==
    { <<"B1C1", "AB1">>, <<"B1C2", "AB2">>, <<"C1D1", "B1C1">>,
      <<"C1D2", "B1C2">>, <<"C2D1", "B2C1">>, <<"C2D2", "B2C2">> }

C6_RightMap ==
    { <<"B2C1", "AB1">>, <<"B2C2", "AB2">>, <<"C3D1", "B1C1">>,
      <<"C3D2", "B1C2">>, <<"C4D1", "B2C1">>, <<"C4D2", "B2C2">> }

(* C6: cycling a triangle whose AB1 = X and AB2 = Y are both occupied    *)
(* creates exactly two new triangles of the same plan; X occupies "A" of *)
(* the first and Y "A" of the second; every occupant of a key of the     *)
(* left (right) map occupies the mapped key of the first (second); the   *)
(* old triangle and its positions no longer exist.                       *)
C6_SplitCorrect ==
    [][\A p \in Procs :
          (/\ CycleEnds(p)
           /\ OccupantOf(frame[p].snap, "AB1") # NoUser
           /\ OccupantOf(frame[p].snap, "AB2") # NoUser)
          => LET old == frame[p].snap
                 first == frame[p].startId
                 second == frame[p].startId + 1
             IN  /\ nextId' = frame[p].startId + 2
                 /\ {first, second} \subseteq DOMAIN triangle'
                 /\ {first, second} \subseteq DOMAIN position'
                 /\ triangle'[first].planType = frame[p].cPlan
                 /\ triangle'[second].planType = frame[p].cPlan
                 /\ OccupantOf(position'[first], "A") = OccupantOf(old, "AB1")
                 /\ OccupantOf(position'[second], "A") = OccupantOf(old, "AB2")
                 /\ \A e \in C6_LeftMap :
                       OccupantOf(position'[first], e[2]) = OccupantOf(old, e[1])
                 /\ \A e \in C6_RightMap :
                       OccupantOf(position'[second], e[2]) = OccupantOf(old, e[1])
                 /\ frame[p].tri \notin DOMAIN triangle'
                 /\ frame[p].tri \notin DOMAIN position']_vars

C6_Witness ==
    /\ AllIdle
    /\ completions # << >>
    /\ completions[1] \notin DOMAIN triangle
    /\ Cardinality(DOMAIN triangle) = 2
    /\ \A t \in DOMAIN triangle : OccupantOf(position[t], "B2C2") # NoUser

(* C7: if AB1 or AB2 is unoccupied when cycleTriangle runs on a          *)
(* triangle, no new triangle is created, the old triangle and all its    *)
(* positions are deleted, and no former occupant gains a position: the   *)
(* position rows of every other triangle stay as they were.              *)
C7_NoSplit ==
    [][\A p \in Procs :
          (/\ pc[p] \in {"y_delPos", "y_delTri"}
           /\ Steps(p)
           /\ \/ OccupantOf(frame[p].snap, "AB1") = NoUser
              \/ OccupantOf(frame[p].snap, "AB2") = NoUser)
          => /\ nextId' = frame[p].startId
             /\ DOMAIN triangle' \subseteq DOMAIN triangle
             /\ \A t \in DOMAIN position' : position'[t] = position[t]
             /\ CycleEnds(p) => /\ frame[p].tri \notin DOMAIN triangle'
                                /\ frame[p].tri \notin DOMAIN position']_vars

C7_Witness ==
    /\ AllIdle
    /\ thrown = {}
    /\ retLog # << >>
    /\ completions = << >>
    /\ DOMAIN triangle = {}
    /\ DOMAIN position = {}
    /\ nextId = 2

\* the open row of triangle t with the smallest (level, index)
C8_SmallestOpen(t) ==
    CHOOSE i \in DOMAIN position[t] :
        /\ position[t][i].userId = NoUser
        /\ \A j \in DOMAIN position[t] :
              position[t][j].userId = NoUser
                 => \/ position[t][i].level < position[t][j].level
                    \/ /\ position[t][i].level = position[t][j].level
                       /\ position[t][i].position <= position[t][j].position

\* the triangle of the newest position of user u is t
C8_NewestIn(u, t) ==
    /\ t \in DOMAIN position
    /\ \E i \in DOMAIN position[t] : position[t][i].userId = u
    /\ \A s \in DOMAIN position :
          (\E i \in DOMAIN position[s] : position[s][i].userId = u)
             => posStamp[s] <= posStamp[t]

(* C8: referrer affinity.  With U the referrerId argument, or the stored *)
(* upline when no referrerId is given: if U's most recently created      *)
(* position lies in a triangle of the new user's plan that is not        *)
(* complete and has an open slot, assign writes the new user into the    *)
(* smallest open (level, index) slot of that triangle, whatever older    *)
(* open triangles exist.                                                 *)
C8_ReferrerAffinity ==
    [][\A p \in Procs : \A t \in DOMAIN triangle :
          LET new == frame[p].userId
              U == IF frame[p].refArg # NoUser
                   THEN frame[p].refArg ELSE user[new].uplineId
          IN  (/\ pc[p] = "a_update" /\ Steps(p)
               /\ U # NoUser
               /\ C8_NewestIn(U, t)
               /\ triangle[t].planType = user[new].plan
               /\ ~triangle[t].isComplete
               /\ \E i \in DOMAIN position[t] : position[t][i].userId = NoUser)
              => /\ frame[p].target = t
                 /\ t \in DOMAIN position'
                 /\ position'[t][C8_SmallestOpen(t)].userId = new
                 /\ \A s \in DOMAIN position \ {t} :
                       s \in DOMAIN position' /\ position'[s] = position[s]]_vars

\* a call follows its referrer into a triangle although an older triangle
\* of the plan is open, the referrerId argument differing from the upline
C8_Witness ==
    \E p \in Procs :
        /\ pc[p] = "a_count"
        /\ frame[p].refArg # NoUser
        /\ user[frame[p].userId].uplineId # NoUser
        /\ user[frame[p].userId].uplineId # frame[p].refArg
        /\ C8_NewestIn(frame[p].refArg, frame[p].target)
        /\ ~C8_NewestIn(user[frame[p].userId].uplineId, frame[p].target)
        /\ position[frame[p].target][frame[p].avail].userId = frame[p].userId
        /\ \E s \in OpenTriangles(frame[p].plan) : s < frame[p].target

\* the rows of the collection whose field equals the token
C9_Matches(field) == {i \in DOMAIN refUsers : refUsers[i][field] = refToken}

(* C9: findReferrer applies its strategies in strict priority order and  *)
(* stops at the first match: an identity match is returned if there is   *)
(* one; else a username match; else a referral-code match; and the       *)
(* suffix scan is consulted only when all three find nobody.             *)
C9_Precedence ==
    refPc = "done" =>
        /\ C9_Matches("id") # {} => refResult \in C9_Matches("id")
        /\ (C9_Matches("id") = {} /\ C9_Matches("username") # {})
              => refResult \in C9_Matches("username")
        /\ (/\ C9_Matches("id") = {} /\ C9_Matches("username") = {}
            /\ C9_Matches("referralCode") # {})
              => refResult \in C9_Matches("referralCode")
        /\ "partial" \in refTried
              => /\ C9_Matches("id") = {}
                 /\ C9_Matches("username") = {}
                 /\ C9_Matches("referralCode") = {}

\* a token that is the identity of one user, the username of a second and
\* the referral code of a third
C9_Witness ==
    /\ refPc = "done"
    /\ \E i, j, k \in DOMAIN refUsers :
          /\ i # j /\ j # k /\ i # k
          /\ refUsers[i].id = refToken
          /\ refUsers[j].username = refToken
          /\ refUsers[k].referralCode = refToken
          /\ refResult = i

\* the fixed structure table: levels 1..4 of sizes 1, 2, 4, 8
C10_Table ==
    { <<1, 0, "A">>, <<2, 0, "AB1">>, <<2, 1, "AB2">>,
      <<3, 0, "B1C1">>, <<3, 1, "B1C2">>, <<3, 2, "B2C1">>, <<3, 3, "B2C2">>,
      <<4, 0, "C1D1">>, <<4, 1, "C1D2">>, <<4, 2, "C2D1">>, <<4, 3, "C2D2">>,
      <<4, 4, "C3D1">>, <<4, 5, "C3D2">>, <<4, 6, "C4D1">>, <<4, 7, "C4D2">> }

(* C10: for any plan, the triangle createTriangle returns has            *)
(* isComplete = false and exactly 15 positions whose (level, index,      *)
(* positionKey) triples are the 15 entries of the structure table, every *)
(* one of them unoccupied.                                               *)
C10_FreshTriangle ==
    [][\A p \in Procs :
          (pc[p] = "c_pos" /\ Steps(p))
          => LET t == frame[p].newTri
             IN  /\ t \in DOMAIN triangle' /\ t \in DOMAIN position'
                 /\ triangle'[t].isComplete = FALSE
                 /\ triangle'[t].planType =
                       (IF frame[p].ret = "assign"
                        THEN frame[p].plan ELSE frame[p].cPlan)
                 /\ Len(position'[t]) = 15
                 /\ {<<position'[t][i].level, position'[t][i].position,
                       position'[t][i].positionKey>> :
                        i \in DOMAIN position'[t]} = C10_Table
                 /\ \A i \in DOMAIN position'[t] :
                       position'[t][i].userId = NoUser]_vars

\* createTriangle has returned a triangle of each plan
C10_Witness ==
    /\ AllIdle
    /\ \E t \in DOMAIN triangle : triangle[t].planType # BasePlan
    /\ \E t \in DOMAIN triangle : triangle[t].planType = BasePlan
    /\ \A t \in DOMAIN triangle : t \in DOMAIN position

\* the rows of the store that user u occupies, as <<triangle, row>> pairs
PositionsOf(u) ==
    {tr \in UNION {{<<t, i>> : i \in DOMAIN position[t]} : t \in DOMAIN position} :
        position[tr[1]][tr[2]].userId = u}

(* C11: in every state of the store, the states between the awaits of    *)
(* createTriangle and cycleTriangle included, every triangle that exists *)
(* has exactly 15 positions, whose positionKey set is the key set of the *)
(* structure.                                                            *)
C11_FifteenPositions ==
    \A t \in DOMAIN triangle :
        /\ t \in DOMAIN position
        /\ Len(position[t]) = 15
        /\ {position[t][i].positionKey : i \in DOMAIN position[t]}
              = {e[3] : e \in C10_Table}

(* C12: in every state isComplete of a triangle is true exactly when all *)
(* 15 of its positions are occupied, and once true it never becomes      *)
(* false again.                                                          *)
C12_CompleteIffFull ==
    [][/\ \A t \in DOMAIN triangle' :
             triangle'[t].isComplete
                <=> /\ t \in DOMAIN position'
                    /\ Cardinality({i \in DOMAIN position'[t] :
                                       position'[t][i].userId # NoUser}) = 15
       /\ \A t \in DOMAIN triangle \cap DOMAIN triangle' :
             triangle[t].isComplete => triangle'[t].isComplete]_vars

(* C15: in every state a user occupies at most one position across all   *)
(* triangles, whatever assign calls (repeated ones for the same user     *)
(* included) and cyclings produced the state.                            *)
C15_OnePositionPerUser ==
    \A u \in DOMAIN user : Cardinality(PositionsOf(u)) <= 1

(* C17: no assign call for an existing user fails with "No available     *)
(* positions in triangle", for sequential calls and for any interleaving *)
(* of concurrent assign and cycling steps.                               *)
C17_NeverNoAvailablePosition ==
    "No available positions in triangle" \notin thrown

\* the call of process p is at an await of cycleTriangle
InCycle(p) ==
    \/ pc[p] \in {"y_findMany", "y_setA1", "y_setA2", "y_find", "y_move",
                  "y_delPos", "y_delTri"}
    \/ pc[p] \in {"c_row", "c_pos"} /\ frame[p].ret \in {"cycle1", "cycle2"}

\* the call of process p is at an await of handleTriangleCompletion
InCompletion(p) ==
    pc[p] \in {"h_mark", "h_findA", "h_findPlan", "h_createTx", "h_updateUser"}

(* C14: when the plan record of a completing triangle is missing,        *)
(* handleTriangleCompletion creates no transaction, changes no user's    *)
(* balance or totalEarned and raises no error; the triangle has been     *)
(* marked complete and is cycled as when the plan exists: split by the   *)
(* two maps when both seeds are occupied, and deleted.                   *)
C14_MissingPlan ==
    [][\A p \in Procs :
          /\ (/\ pc[p] = "h_findPlan" /\ Steps(p)
              /\ planTable[triangle[frame[p].tri].planType] = NoPlan)
             => /\ pc'[p] = "y_findMany"
                /\ thrown' = thrown
                /\ triangle'[frame[p].tri].isComplete
          /\ (/\ AssignReturns(p)
              /\ frame[p].tri = frame[p].target
              /\ planTable[frame[p].plan] = NoPlan)
             => LET old == frame[p].snap
                    first == frame[p].startId
                    second == frame[p].startId + 1
                    split == /\ OccupantOf(old, "AB1") # NoUser
                             /\ OccupantOf(old, "AB2") # NoUser
                IN  /\ thrown' = thrown
                    /\ transaction' = transaction
                    /\ Len(transaction') = frame[p].preTx
                    /\ user' = frame[p].preUser
                    /\ frame[p].tri \notin DOMAIN triangle'
                    /\ frame[p].tri \notin DOMAIN position'
                    /\ nextId' = frame[p].startId + (IF split THEN 2 ELSE 0)
                    /\ split =>
                          /\ OccupantOf(position'[first], "A") = OccupantOf(old, "AB1")
                          /\ OccupantOf(position'[second], "A") = OccupantOf(old, "AB2")
                          /\ \A e \in C6_LeftMap :
                                OccupantOf(position'[first], e[2]) = OccupantOf(old, e[1])
                          /\ \A e \in C6_RightMap :
                                OccupantOf(position'[second], e[2]) = OccupantOf(old, e[1])]_vars

C14_Witness ==
    /\ AllIdle
    /\ planTable[BasePlan] = NoPlan
    /\ special = 0
    /\ Len(retLog) = 15
    /\ completions = << retLog[1].tri >>
    /\ retLog[1].tri \notin DOMAIN triangle
    /\ transaction = << >>
    /\ thrown = {}
    /\ \A u \in DOMAIN user : user[u].balance = 0 /\ user[u].totalEarned = 0
    /\ Cardinality(DOMAIN triangle) = 2

\* triangle t is of the plan, not complete, and has an open slot
C16_Open(t, plan) ==
    /\ t \in DOMAIN triangle
    /\ triangle[t].planType = plan
    /\ ~triangle[t].isComplete
    /\ t \in DOMAIN position
    /\ \E i \in DOMAIN position[t] : position[t][i].userId = NoUser

(* C16: an assign never places a user into a triangle of another plan;   *)
(* when referrer affinity selected no triangle, it places the user into  *)
(* the oldest-created triangle of the user's plan that is not complete   *)
(* and has an open slot, and it creates a triangle only when there is no *)
(* such triangle.                                                        *)
C16_OldestFirst ==
    [][\A p \in Procs :
          LET plan == user[frame[p].userId].plan
          IN  /\ (pc[p] = "a_update" /\ pc'[p] = "a_count")
                 => /\ triangle[frame[p].target].planType = plan
                    /\ position'[frame[p].target][frame[p].avail].userId
                          = frame[p].userId
                    /\ frame[p].target # frame[p].refTri
                          => \A t \in DOMAIN triangle :
                                C16_Open(t, plan) => frame[p].target <= t
              /\ (pc[p] = "c_row" /\ frame[p].ret = "assign" /\ Steps(p))
                 => /\ \A t \in DOMAIN triangle : ~C16_Open(t, plan)
                    /\ triangle'[nextId].planType = plan]_vars

\* a call without affinity has taken the older of two open triangles
C16_Witness ==
    \E p \in Procs :
        /\ pc[p] = "a_count"
        /\ frame[p].refTri = NoTri
        /\ position[frame[p].target][frame[p].avail].userId = frame[p].userId
        /\ \E t \in DOMAIN triangle :
              /\ t > frame[p].target
              /\ C16_Open(t, frame[p].plan)
              /\ C16_Open(frame[p].target, frame[p].plan)

\* no user matches the token by exact id, username or referral code
C18_NoExactMatch ==
    /\ C9_Matches("id") = {}
    /\ C9_Matches("username") = {}
    /\ C9_Matches("referralCode") = {}

\* the users whose id ends with the token, compared case-insensitively
C18_SuffixUsers ==
    {i \in DOMAIN refUsers :
        endsWith(toLowerCase(refUsers[i].id), toLowerCase(refToken))}

\* the result is the first suffix match in scan order, none if there is none
C18_FirstSuffixMatch ==
    IF C18_SuffixUsers = {} THEN refResult = 0
    ELSE /\ refResult \in C18_SuffixUsers
         /\ \A i \in C18_SuffixUsers : refResult <= i

(* C18 as stated: for every token, of any length, that no user matches   *)
(* exactly, findReferrer returns the first user in scan order whose id   *)
(* ends with the token, and none only when there is no such user.        *)
C18_SuffixAnyLength ==
    (refPc = "done" /\ C18_NoExactMatch) => C18_FirstSuffixMatch

(* C18 amended: the same for tokens of at least 3 characters; for a      *)
(* shorter token that no user matches exactly, findReferrer returns none *)
(* and does not scan.                                                    *)
C18_SuffixFromThree ==
    (refPc = "done" /\ C18_NoExactMatch) =>
        IF Len(refToken) >= 3
        THEN C18_FirstSuffixMatch
        ELSE refResult = 0 /\ "partial" \notin refTried

\* an upper-case token of 3 characters found by the suffix scan
C18_Witness ==
    /\ refPc = "done"
    /\ C18_NoExactMatch
    /\ Len(refToken) = 3
    /\ toLowerCase(refToken) # refToken
    /\ refResult # 0
    /\ refResult \in C18_SuffixUsers
    /\ "partial" \in refTried

\* every row of the rows read has a user
AllOccupied(rows) ==
    /\ Len(rows) = 15
    /\ \A i \in DOMAIN rows : rows[i].userId # NoUser

\* the rows of a sequence of rows that user u occupies
RowsOf(rows, u) == {i \in DOMAIN rows : rows[i].userId = u}

\* a row of level 2 to 4 lies under AB1: the first half of its level
C19_UnderAB1(r) == r.position < 2 ^ (r.level - 2)

(* C19: cycling a fully occupied triangle of 15 distinct users loses     *)
(* only the level-1 occupant: each occupant of levels 2 to 4 then holds  *)
(* exactly one position across the two successors, one level shallower   *)
(* than before, in the first successor if it was under AB1 and in the    *)
(* second if under AB2; the former occupant of "A" holds none.           *)
C19_OnlyTopLost ==
    [][\A p \in Procs :
          (/\ CycleEnds(p)
           /\ AllOccupied(frame[p].snap)
           /\ \A i, j \in DOMAIN frame[p].snap :
                 i # j => frame[p].snap[i].userId # frame[p].snap[j].userId)
          => LET first == position'[frame[p].startId]
                 second == position'[frame[p].startId + 1]
             IN  \A i \in DOMAIN frame[p].snap :
                    LET r == frame[p].snap[i]
                        home == IF C19_UnderAB1(r) THEN first ELSE second
                        other == IF C19_UnderAB1(r) THEN second ELSE first
                    IN  IF r.level = 1
                        THEN /\ RowsOf(first, r.userId) = {}
                             /\ RowsOf(second, r.userId) = {}
                        ELSE /\ Cardinality(RowsOf(home, r.userId)) = 1
                             /\ \A j \in RowsOf(home, r.userId) :
                                   home[j].level = r.level - 1
                             /\ RowsOf(other, r.userId) = {}]_vars

\* after the split of the first triangle, filled by users 1 to 15
C19_Witness ==
    /\ AllIdle
    /\ special = 0
    /\ Len(retLog) = 15
    /\ PositionsOf(1) = {}
    /\ \A u \in 2 .. 15 : Cardinality(PositionsOf(u)) = 1
    /\ \A t \in DOMAIN position : OccupantOf(position[t], "B2C2") \in {11, 15}

(* C20: each successor of the split of a fully occupied triangle has     *)
(* exactly 7 occupants, levels 1 to 3 full and the 8 level-4 slots       *)
(* empty, and isComplete = false; no step of cycleTriangle triggers a    *)
(* completion; and once an assign call has triggered its completion and  *)
(* cycling, it triggers no other before it returns.                      *)
C20_SuccessorsHalfFull ==
    [][\A p \in Procs :
          /\ (CycleEnds(p) /\ AllOccupied(frame[p].snap))
             => \A t \in {frame[p].startId, frame[p].startId + 1} :
                   /\ t \in DOMAIN triangle' /\ t \in DOMAIN position'
                   /\ ~triangle'[t].isComplete
                   /\ Cardinality({i \in DOMAIN position'[t] :
                                      position'[t][i].userId # NoUser}) = 7
                   /\ \A i \in DOMAIN position'[t] :
                         position'[t][i].userId # NoUser
                            <=> position'[t][i].level <= 3
          /\ (InCycle(p) /\ Steps(p))
             => /\ completions' = completions
                /\ ~InCompletion(p)' /\ pc'[p] # "a_count"
                /\ \A t \in DOMAIN triangle' :
                      triangle'[t].isComplete
                         => t \in DOMAIN triangle /\ triangle[t].isComplete
          /\ (frame[p].kind = "assign" /\ frame[p].tri # NoTri /\ Steps(p))
             => /\ completions' = completions
                /\ pc'[p] # "h_mark"
                /\ pc'[p] = "y_findMany" => InCompletion(p)
          /\ Len(completions') <= Len(completions) + 1]_vars

\* the two successors of a split, as cycleTriangle left them
C20_Witness ==
    /\ AllIdle
    /\ Len(completions) = 1
    /\ Cardinality(DOMAIN triangle) = 2
    /\ \A t \in DOMAIN triangle :
          /\ ~triangle[t].isComplete
          /\ FilledCount(t) = 7
          /\ OccupantOf(position[t], "C1D1") = NoUser

(* C21: whenever no operation is in progress, calls running one after   *)
(* another, no triangle of the store has isComplete = true and none has  *)
(* all 15 positions occupied: a triangle that fills is marked complete,  *)
(* paid out and deleted within the assign call that filled it.           *)
C21_QuiescentStore ==
    AllIdle =>
        /\ \A t \in DOMAIN triangle :
              /\ ~triangle[t].isComplete
              /\ FilledCount(t) < 15
        /\ \A k \in DOMAIN completions :
              /\ completions[k] \notin DOMAIN triangle
              /\ completions[k] \notin DOMAIN position
        /\ planTable[BasePlan] # NoPlan /\ special = 0
              => Len(transaction) = Len(completions)

\* the 16th call has returned: the first triangle filled, was paid out and
\* is gone, and the 16th user sits in a successor
C21_Witness ==
    /\ AllIdle
    /\ special = 0
    /\ Len(retLog) = 16
    /\ completions = << retLog[1].tri >>
    /\ retLog[16].tri # retLog[1].tri
    /\ retLog[1].tri \notin DOMAIN triangle
    /\ Len(transaction) = 1
    /\ \A t \in DOMAIN triangle : FilledCount(t) \in {7, 8}

====
